---- MODULE Spec2Model ----
(***************************************************************************)
(* Closed-loop battery digital twin (src/main_simulation.py): the          *)
(* simulation loop with its inline plant, grid-search controller, Kalman   *)
(* filter, NIS and RUL computations, and the report that follows the loop. *)
(*                                                                         *)
(* The program computes in IEEE doubles.  The model computes in fixed      *)
(* point with truncation toward zero:                                      *)
(*   Scale  = 10^9  SOC, Health, the estimates, the measurement            *)
(*   UScale = 10^6  sunlight, load, net power                              *)
(*   PScale = 10^8  covariances P, Q, R, S and the gain K                  *)
(*   CScale = 10^8  the fractional limb of a cost                          *)
(*   NScale = 10^4  NIS                                                    *)
(* Every product that would leave 32 bits goes through MulDiv.             *)
(***************************************************************************)
EXTENDS Integers, Sequences, FiniteSets, TLC

VARIABLES
  pc,                 \* "loop" while the for loop runs, "done" after the report, "error" after an exception
  t,                  \* loop index of the next step = number of completed steps
  SOC, Health,        \* true system
  X_est, P,           \* filter belief: <<SOC, Health>> and 2x2 covariance
  Q_base, R,          \* noise covariances (settings)
  C_nominal,          \* nominal capacity (setting)
  n_candidates,       \* number of points of load_candidates (setting)
  alpha_health_fault, \* degradation rate used by the last step
  load_factor,        \* load applied by the last step
  best_cost,          \* cost of the selected candidate in the last step
  dHealth,            \* Health increment applied by the last step
  rng,                \* state of the ambient random generator
  soc_true_hist, soc_est_hist, health_true_hist, health_est_hist, nis_hist, rul_hist,
  report              \* performance metrics printed after the loop

vars == <<pc, t, SOC, Health, X_est, P, Q_base, R, C_nominal, n_candidates,
          alpha_health_fault, load_factor, best_cost, dHealth, rng,
          soc_true_hist, soc_est_hist, health_true_hist, health_est_hist,
          nis_hist, rul_hist, report>>

----------------------------------------------------------------------------
(* Bounds of the model *)

\* seeds of the ambient random generator that a run may start from: 0..MaxSeed
MaxSeed == 1

----------------------------------------------------------------------------
(* Fixed-point arithmetic *)

Scale  == 10^9
UScale == 10^6
PScale == 10^8
CScale == 10^8
NScale == 10^4
MaxInt == 2147483646 + 1

Abs(x) == IF x < 0 THEN -x ELSE x
Sgn(x) == IF x < 0 THEN -1 ELSE IF x > 0 THEN 1 ELSE 0
Max(a, b) == IF b > a THEN b ELSE a
Min(a, b) == IF b < a THEN b ELSE a

\* One binary digit of a long multiplication: from h = <<q, r>> with
\* x = q * c + r to the pair of 2 * x + bit * a, where 0 <= r < c.
Bit(h, bit, a, c) ==
  LET c1 == IF h[2] >= c - h[2] THEN 1 ELSE 0
      r1 == IF c1 = 1 THEN h[2] - (c - h[2]) ELSE h[2] + h[2]
      e  == IF bit = 1 THEN a % c ELSE 0
      eq == IF bit = 1 THEN a \div c ELSE 0
      c2 == IF r1 >= c - e THEN 1 ELSE 0
      r2 == IF c2 = 1 THEN r1 - (c - e) ELSE r1 + e
  IN  <<2 * h[1] + c1 + eq + c2, r2>>

\* four digits of a byte d, most significant first, onto h
Nibble(h, d, a, c) ==
  Bit(Bit(Bit(Bit(h, (d \div 8) % 2, a, c), (d \div 4) % 2, a, c),
          (d \div 2) % 2, a, c), d % 2, a, c)

\* the eight low digits of b onto h
Byte(h, a, b, c) ==
  IF h[1] < 0 THEN h
  ELSE Nibble(Nibble(h, (b \div 16) % 16, a, c), b % 16, a, c)

\* <<q, r>> with a * b = q * c + r and 0 <= r < c, for a, b >= 0 and c > 0,
\* computed without forming a * b when it would not fit.
RECURSIVE QuotRem(_, _, _)
QuotRem(a, b, c) ==
  IF a = 0 \/ b = 0 THEN <<0, 0>>
  ELSE IF a <= MaxInt \div b THEN <<(a * b) \div c, (a * b) % c>>
  ELSE Byte(QuotRem(a, b \div 256, c), a, b, c)

\* a * b / c truncated toward zero (c # 0)
MulDiv(a, b, c) == Sgn(a) * Sgn(b) * Sgn(c) * QuotRem(Abs(a), Abs(b), Abs(c))[1]

\* floor of the square root of n >= 0
RECURSIVE IsqrtFrom(_, _, _)
IsqrtFrom(n, lo, hi) ==
  IF lo >= hi THEN lo
  ELSE LET mid == (lo + hi + 1) \div 2
       IN  IF mid <= n \div mid THEN IsqrtFrom(n, mid, hi) ELSE IsqrtFrom(n, lo, mid - 1)
Isqrt(n) == IF n <= 0 THEN 0 ELSE IsqrtFrom(n, 1, Min(n, 46340))

----------------------------------------------------------------------------
(* Simulation settings *)

dt == 1
T_total == 500
\* variant: one step short
stepsShort == T_total \div dt - 1

steps == T_total \div dt

SOC_target == Scale
SOC_min == 85 * (Scale \div 100)
Health_min == 75 * (Scale \div 100)
Health_floor == 75 * (Scale \div 100)      \* the literal 0.75 of the RUL block

C_nominal0 == 50000
\* alpha_health = 2e-6 as a ratio
alpha_num == 2
alpha_den == 10^6
fault_step == 300
fault_factor == 10

SOC0 == 8 * (Scale \div 10)
Health0 == Scale
X_est0 == <<8 * (Scale \div 10), Scale>>
P0 == <<<<PScale \div 10^4, 0>>, <<0, PScale \div 10^4>>>>
Q_base0 == <<<<PScale \div 10^6, 0>>, <<0, PScale \div 10^8>>>>
R0 == <<<<PScale \div 10^4, 0>>, <<0, PScale \div 10^6>>>>
N_candidates0 == 20

----------------------------------------------------------------------------
(* Disturbance *)

\* np.sin(2 * np.pi * k / 180) for k = 0..179, at UScale
SinTable == <<
     0, 34899, 69756, 104528, 139173, 173648, 207912, 241922, 275637,
     309017, 342020, 374607, 406737, 438371, 469472, 500000, 529919, 559193,
     587785, 615661, 642788, 669131, 694658, 719340, 743145, 766044, 788011,
     809017, 829038, 848048, 866025, 882948, 898794, 913545, 927184, 939693,
     951057, 961262, 970296, 978148, 984808, 990268, 994522, 997564, 999391,
     1000000, 999391, 997564, 994522, 990268, 984808, 978148, 970296, 961262,
     951057, 939693, 927184, 913545, 898794, 882948, 866025, 848048, 829038,
     809017, 788011, 766044, 743145, 719340, 694658, 669131, 642788, 615661,
     587785, 559193, 529919, 500000, 469472, 438371, 406737, 374607, 342020,
     309017, 275637, 241922, 207912, 173648, 139173, 104528, 69756, 34899,
     0, -34899, -69756, -104528, -139173, -173648, -207912, -241922, -275637,
     -309017, -342020, -374607, -406737, -438371, -469472, -500000, -529919, -559193,
     -587785, -615661, -642788, -669131, -694658, -719340, -743145, -766044, -788011,
     -809017, -829038, -848048, -866025, -882948, -898794, -913545, -927184, -939693,
     -951057, -961262, -970296, -978148, -984808, -990268, -994522, -997564, -999391,
     -1000000, -999391, -997564, -994522, -990268, -984808, -978148, -970296, -961262,
     -951057, -939693, -927184, -913545, -898794, -882948, -866025, -848048, -829038,
     -809017, -788011, -766044, -743145, -719340, -694658, -669131, -642788, -615661,
     -587785, -559193, -529919, -500000, -469472, -438371, -406737, -374607, -342020,
     -309017, -275637, -241922, -207912, -173648, -139173, -104528, -69756, -34899 >>

\* sunlight = max(80 + 80 * sin(2 pi t / 180), 0), at UScale
Sunlight(k) == Max(80 * UScale + 80 * SinTable[(k % 180) + 1], 0)

\* degradation rate of step k as a multiple of alpha_health
\* variant: the fault begins one step early
FaultRateEarly(k) == IF k >= fault_step THEN alpha_num * fault_factor ELSE alpha_num

FaultRate(k) == IF k > fault_step THEN alpha_num * fault_factor ELSE alpha_num

----------------------------------------------------------------------------
(* Plant and controller lookahead *)

CapScale == 10^4

\* np.linspace(0.2, 1.0, n), at UScale
LoadCandidates(n) ==
  [i \in 1..n |->
     IF n = 1 THEN 2 * (UScale \div 10)
     ELSE 2 * (UScale \div 10) + MulDiv(8 * (UScale \div 10), i - 1, n - 1)]

\* (sunlight - 5.0 * load) / (C_nominal * Health), at Scale
\* variant: charge and discharge exchanged
DSocInverted(sun, load, cap, health) ==
  MulDiv(5 * load - sun, (Scale \div UScale) * CapScale, MulDiv(cap, health, Scale \div CapScale))

DSoc(sun, load, cap, health) ==
  MulDiv(sun - 5 * load, (Scale \div UScale) * CapScale,
         MulDiv(cap, health, Scale \div CapScale))

\* -alpha_health_fault * abs(soc - SOC_target), at Scale
\* variant: degradation with the sign dropped
DHealthPositive(rate, soc) == MulDiv(rate, Abs(soc - SOC_target), alpha_den)

DHealth(rate, soc) == -MulDiv(rate, Abs(soc - SOC_target), alpha_den)

\* np.clip(x, lo, hi)
\* variant: no saturation
ClipNone(x, lo, hi) == x

Clip(x, lo, hi) == IF x < lo THEN lo ELSE IF x > hi THEN hi ELSE x

SOC_pred(load, soc, health, sun, cap) == soc + DSoc(sun, load, cap, health) * dt
Health_pred(soc, health, rate) == health + DHealth(rate, soc) * dt

\* A cost is hi + lo / CScale with 0 <= lo < CScale.
Penalty == [hi |-> 10^6, lo |-> 0]
BestCost0 == [hi |-> 10^9, lo |-> 0]
CostAdd(a, b) ==
  [hi |-> a.hi + b.hi + (a.lo + b.lo) \div CScale, lo |-> (a.lo + b.lo) % CScale]
CostLess(a, b) == a.hi < b.hi \/ (a.hi = b.hi /\ a.lo < b.lo)

\* x ** 2 for x at Scale, and for x at UScale, both at CScale
SquareS(x) == MulDiv(x, x, Scale) \div (Scale \div CScale)
SquareU(x) == MulDiv(x, x, UScale) * (CScale \div UScale)

\* cost of one candidate: lines 81-94
Cost(load, soc, health, sun, rate, cap) ==
  LET sp   == SOC_pred(load, soc, health, sun, cap)
      dh   == DHealth(rate, soc)
      hp   == Health_pred(soc, health, rate)
      base == 10 * SquareS(sp - SOC_target) + 50 * SquareS(dh)
              + 5 * SquareU(UScale - load)
      c    == [hi |-> base \div CScale, lo |-> base % CScale]
  IN  IF sp < SOC_min \/ hp < Health_min THEN CostAdd(c, Penalty) ELSE c

\* one pass of the loop body's comparison: lines 96-98
Keep(best, c, load) ==
  IF CostLess(c, best.cost) THEN [cost |-> c, load |-> load] ELSE best

\* best_cost and best_load after the loop has visited candidates 1..i in order
\* variant: the scan stops one candidate short of the end of the grid
RECURSIVE GridSearchSkipLast(_, _, _)
GridSearchSkipLast(cands, costs, i) ==
  IF i <= 1 THEN [cost |-> BestCost0, load |-> UScale]
  ELSE Keep(GridSearchSkipLast(cands, costs, i - 1), costs[i - 1], cands[i - 1])

RECURSIVE GridSearch(_, _, _)
GridSearch(cands, costs, i) ==
  IF i = 0 THEN [cost |-> BestCost0, load |-> UScale]
  ELSE Keep(GridSearch(cands, costs, i - 1), costs[i], cands[i])

\* the grid-search block: lines 75-100
Control(n, soc, health, sun, rate, cap) ==
  LET cands == LoadCandidates(n)
      costs == [i \in 1..n |-> Cost(cands[i], soc, health, sun, rate, cap)]
  IN  IF costs = <<>> THEN GridSearch(cands, costs, 0) ELSE GridSearch(cands, costs, n)

\* SOC after the true system update (lines 105-107)
SOC_next(load, soc, health, sun, cap) ==
  Clip(soc + DSoc(sun, load, cap, health) * dt, 0, Scale)

----------------------------------------------------------------------------
(* Measurement noise *)

\* the ambient generator: a 16-bit linear congruential generator
Lcg(s) == (25173 * s + 13849) % 65536

\* standard normal deviates in half sigmas
Deviates == <<-4, -3, -2, -2, -1, -1, -1, 0, 0, 0, 1, 1, 1, 2, 2, 3, 4>>

\* np.random.normal(0, sigma) drawn with generator state s
Normal(s, sigma) == (Deviates[((s \div 64) % Len(Deviates)) + 1] * sigma) \div 2

\* np.sqrt of a variance at PScale, as a deviation at Scale
Sigma(v) == Isqrt(v) * (Scale \div Isqrt(PScale))

----------------------------------------------------------------------------
(* 2x2 linear algebra *)

Eye2 == <<<<1, 0>>, <<0, 1>>>>
Transpose(A) == <<<<A[1][1], A[2][1]>>, <<A[1][2], A[2][2]>>>>
MatAdd(A, B) == <<<<A[1][1] + B[1][1], A[1][2] + B[1][2]>>,
                  <<A[2][1] + B[2][1], A[2][2] + B[2][2]>>>>
MatSub(A, B) == <<<<A[1][1] - B[1][1], A[1][2] - B[1][2]>>,
                  <<A[2][1] - B[2][1], A[2][2] - B[2][2]>>>>
MatScale(k, A) == <<<<k * A[1][1], k * A[1][2]>>, <<k * A[2][1], k * A[2][2]>>>>
\* A @ B with every product divided by d
MatMul(A, B, d) ==
  <<<<MulDiv(A[1][1], B[1][1], d) + MulDiv(A[1][2], B[2][1], d),
      MulDiv(A[1][1], B[1][2], d) + MulDiv(A[1][2], B[2][2], d)>>,
    <<MulDiv(A[2][1], B[1][1], d) + MulDiv(A[2][2], B[2][1], d),
      MulDiv(A[2][1], B[1][2], d) + MulDiv(A[2][2], B[2][2], d)>>>>
MatVec(A, v, d) ==
  <<MulDiv(A[1][1], v[1], d) + MulDiv(A[1][2], v[2], d),
    MulDiv(A[2][1], v[1], d) + MulDiv(A[2][2], v[2], d)>>
Dot(u, v, d) == MulDiv(u[1], v[1], d) + MulDiv(u[2], v[2], d)
Det(A) == A[1][1] * A[2][2] - A[1][2] * A[2][1]
\* np.linalg.inv of a matrix at PScale, in units (Det(A) # 0)
Inv(A) ==
  LET d == Det(A)
  IN  <<<<MulDiv(A[2][2], PScale, d), MulDiv(-A[1][2], PScale, d)>>,
        <<MulDiv(-A[2][1], PScale, d), MulDiv(A[1][1], PScale, d)>>>>

----------------------------------------------------------------------------
(* Kalman filter, NIS and RUL *)

WScale == 10^3

F == Eye2
H_mat == Eye2

\* P_pred = F @ P @ F.T + Q_base
P_predict(Pm, Q) == MatAdd(MatMul(MatMul(F, Pm, 1), Transpose(F), 1), Q)

\* S = H_mat @ P_pred @ H_mat.T + R
InnovCov(P_pred, Rm) == MatAdd(MatMul(MatMul(H_mat, P_pred, 1), Transpose(H_mat), 1), Rm)

\* K = P_pred @ H_mat.T @ np.linalg.inv(S), at PScale
KalmanGain(P_pred, S) == MatMul(MatMul(P_pred, Transpose(H_mat), 1), Inv(S), 1)

\* y = z - H_mat @ X_pred
Innovation(z, X_pred) ==
  LET hx == MatVec(H_mat, X_pred, 1) IN <<z[1] - hx[1], z[2] - hx[2]>>

\* X_est = X_pred + K @ y
X_update(X_pred, K, y) ==
  LET ky == MatVec(K, y, PScale) IN <<X_pred[1] + ky[1], X_pred[2] + ky[2]>>

\* P = (np.eye(2) - K @ H_mat) @ P_pred
\* variant: (K H - I) in place of (I - K H)
P_updateSlip(K, P_pred) ==
  MatMul(MatSub(MatMul(K, H_mat, 1), MatScale(PScale, Eye2)), P_pred, PScale)

P_update(K, P_pred) ==
  MatMul(MatSub(MatScale(PScale, Eye2), MatMul(K, H_mat, 1)), P_pred, PScale)

\* NIS = y.T @ np.linalg.inv(S) @ y, at NScale
Nis(y, S) ==
  Dot(y, MatVec(Inv(S), y, Scale \div WScale), (Scale \div NScale) * WScale)

\* the RUL block: lines 147-150, in steps
Rul(X, rate) ==
  LET dH_est  == DHealth(rate, X[1])
      dH_est2 == Max(Abs(dH_est), Scale \div 10^8)
  IN  Max(MulDiv(Health_floor - X[2], 1, dH_est2), 0)

----------------------------------------------------------------------------
(* Performance metrics *)

\* sum of f[lo..hi]
RECURSIVE SumSeq(_, _, _)
SumSeq(f, lo, hi) ==
  IF lo > hi THEN 0
  ELSE IF lo = hi THEN f[lo]
  ELSE SumSeq(f, lo, (lo + hi) \div 2) + SumSeq(f, (lo + hi) \div 2 + 1, hi)

\* (a - b) ** 2 elementwise, at Scale
SqErr(a, b) == [i \in 1..Len(a) |-> MulDiv(a[i] - b[i], a[i] - b[i], Scale)]

\* np.sqrt(np.mean((a - b) ** 2)), at UScale
Rmse(a, b) == Isqrt((SumSeq(SqErr(a, b), 1, Len(a)) \div Len(a)) * (UScale \div WScale))

nis_threshold == 6
expected_nis == 2

Metrics ==
  LET n       == Len(nis_hist)
      avg_nis == SumSeq(nis_hist, 1, n) \div n
      exceed  == Cardinality({i \in 1..n : nis_hist[i] > nis_threshold * NScale})
      err     == Abs(avg_nis - expected_nis * NScale)
  IN  [rmse_soc           |-> Rmse(soc_true_hist, soc_est_hist),
       rmse_health        |-> Rmse(health_true_hist, health_est_hist),
       avg_nis            |-> avg_nis,
       nis_exceed_percent |-> (100 * exceed) \div n,
       consistency        |-> IF err < NScale THEN "GOOD" ELSE "Needs tuning"]

----------------------------------------------------------------------------
(* The program *)

NoReport == [rmse_soc |-> 0, rmse_health |-> 0, avg_nis |-> 0,
             nis_exceed_percent |-> 0, consistency |-> "none"]

\* the state before the loop, for given settings and generator seed
InitWith(q, r, cap, n, seed) ==
  /\ pc = "loop"
  /\ t = 0
  /\ SOC = SOC0
  /\ Health = Health0
  /\ X_est = X_est0
  /\ P = P0
  /\ Q_base = q
  /\ R = r
  /\ C_nominal = cap
  /\ n_candidates = n
  /\ alpha_health_fault = alpha_num
  /\ load_factor = UScale
  /\ best_cost = BestCost0
  /\ dHealth = 0
  /\ rng = seed
  /\ soc_true_hist = <<>>
  /\ soc_est_hist = <<>>
  /\ health_true_hist = <<>>
  /\ health_est_hist = <<>>
  /\ nis_hist = <<>>
  /\ rul_hist = <<>>
  /\ report = NoReport

Init == \E seed \in 0..MaxSeed : InitWith(Q_base0, R0, C_nominal0, N_candidates0, seed)

\* the filter's predict and update and the appends of one step: lines 115-159
Estimate(soc1, h1, rate, r1, r2) ==
  LET z      == <<soc1 + Normal(r1, Sigma(R[1][1])), h1 + Normal(r2, Sigma(R[2][2]))>>
      X_pred == X_est
      P_pred == P_predict(P, Q_base)
      y      == Innovation(z, X_pred)
      S      == InnovCov(P_pred, R)
  IN  IF Det(S) = 0
      THEN \* np.linalg.inv raises LinAlgError: the program ends here
           /\ pc' = "error"
           /\ UNCHANGED <<t, X_est, P, soc_true_hist, soc_est_hist,
                          health_true_hist, health_est_hist, nis_hist, rul_hist>>
      ELSE LET K == KalmanGain(P_pred, S)
           IN  /\ pc' = "loop"
               /\ t' = t + 1
               /\ X_est' = X_update(X_pred, K, y)
               /\ P' = P_update(K, P_pred)
               /\ nis_hist' = Append(nis_hist, Nis(y, S))
               /\ rul_hist' = Append(rul_hist, Rul(X_est', rate))
               /\ soc_true_hist' = Append(soc_true_hist, soc1)
               /\ soc_est_hist' = Append(soc_est_hist, X_est'[1])
               /\ health_true_hist' = Append(health_true_hist, h1)
               /\ health_est_hist' = Append(health_est_hist, X_est'[2])

\* one iteration of the simulation loop: lines 58-159
Step ==
  /\ pc = "loop"
  /\ t < steps
  /\ alpha_health_fault' = FaultRate(t)
  /\ LET ctl == Control(n_candidates, SOC, Health, Sunlight(t), FaultRate(t), C_nominal)
     IN  /\ load_factor' = ctl.load
         /\ best_cost' = ctl.cost
  /\ SOC' = SOC_next(load_factor', SOC, Health, Sunlight(t), C_nominal)
  /\ dHealth' = DHealth(alpha_health_fault', SOC')
  /\ Health' = Health + dHealth' * dt
  /\ rng' = Lcg(Lcg(rng))
  /\ Estimate(SOC', Health', alpha_health_fault', Lcg(rng), rng')
  /\ UNCHANGED <<Q_base, R, C_nominal, n_candidates, report>>

\* after the loop: the performance metrics, lines 164-193
Report ==
  /\ pc = "loop"
  /\ t = steps
  /\ pc' = "done"
  /\ report' = Metrics
  /\ UNCHANGED <<t, SOC, Health, X_est, P, Q_base, R, C_nominal, n_candidates,
                 alpha_health_fault, load_factor, best_cost, dHealth, rng,
                 soc_true_hist, soc_est_hist, health_true_hist, health_est_hist,
                 nis_hist, rul_hist>>

Next == Step \/ Report

Spec == Init /\ [][Next]_vars

\* The position of the interpreter in the script: while it is in the loop it
\* moves on, to the next iteration, to the report or to an exception.  Every
\* step of Next is such a move, and Next can step exactly when pc = "loop".
Advance ==
  /\ pc = "loop"
  /\ \E p \in {"loop", "done", "error"}, k \in {t, t + 1} : pc' = p /\ t' = k

\* the loop is sequential code: it always takes its next step
FairSpec == Init /\ [][Next]_vars /\ WF_<<pc, t>>(Advance)

----------------------------------------------------------------------------
(* Runs with other settings *)

\* settings the validation of section 7 of the specification would reject
InvalidSettings ==
  { \* negative process variance of Health
    [q |-> <<<<PScale \div 10^6, 0>>, <<0, -(PScale \div 10^4)>>>>,
     r |-> R0, cap |-> C_nominal0, n |-> N_candidates0],
    \* negative process variance of SOC
    [q |-> <<<<-(PScale \div 10^4), 0>>, <<0, PScale \div 10^8>>>>,
     r |-> R0, cap |-> C_nominal0, n |-> N_candidates0],
    \* empty candidate set
    [q |-> Q_base0, r |-> R0, cap |-> C_nominal0, n |-> 0],
    \* negative capacity
    [q |-> Q_base0, r |-> R0, cap |-> -C_nominal0, n |-> N_candidates0] }

InitConfig == \E c \in InvalidSettings : InitWith(c.q, c.r, c.cap, c.n, 0)

SpecConfig == InitConfig /\ [][Next]_vars

----------------------------------------------------------------------------
(* Properties *)

Histories == <<soc_true_hist, soc_est_hist, health_true_hist, health_est_hist,
               nis_hist, rul_hist>>

\* the 20-point grid over [0.2, 1.0], at UScale
Grid20 == {2 * (UScale \div 10) + (8 * (UScale \div 10) * k) \div 19 : k \in 0..19}

\* C1: in every step the applied load_factor is a point of the 20-point grid and
\* is the first candidate, in ascending order, whose cost equals the minimum
\* cost over all candidates (also when every candidate carries the penalty).
C1_FirstMinimum ==
  [][t' = t + 1 =>
       LET cands == LoadCandidates(n_candidates)
           costs == [i \in 1..Len(cands) |->
                       Cost(cands[i], SOC, Health, Sunlight(t), FaultRate(t), C_nominal)]
       IN  /\ costs # <<>>
           /\ load_factor' \in Grid20
           /\ \E i \in 1..Len(cands) :
                /\ load_factor' = cands[i]
                /\ \A j \in 1..Len(cands) : ~CostLess(costs[j], costs[i])
                /\ \A j \in 1..(i - 1) : CostLess(costs[i], costs[j])]_vars

\* a step has run in which every candidate carried the penalty
C1_Witness == t >= 1 /\ best_cost.hi >= 10^6 /\ load_factor \in Grid20

\* sunlight, Health and load values other than those the run produces
SunSamples == {0, 80 * UScale, 160 * UScale}
HealthSamples == {Health_min, Scale}
LoadSamples == {2 * (UScale \div 10), UScale}

\* C2: after every true-system update the true SOC lies in [0, 1]: in every
\* reachable state of the run, in every recorded entry, and for an update from
\* the current SOC under any sampled sunlight, Health and load.
C2_SocInUnitInterval ==
  /\ 0 <= SOC /\ SOC <= Scale
  /\ \A i \in 1..Len(soc_true_hist) : 0 <= soc_true_hist[i] /\ soc_true_hist[i] <= Scale
  /\ \A sun \in SunSamples, h \in HealthSamples, load \in LoadSamples :
       LET s1 == SOC_next(load, SOC, h, sun, C_nominal)
       IN  0 <= s1 /\ s1 <= Scale

\* a step has run whose update was cut back to 1.0
C2_Witness == t >= 1 /\ SOC = Scale /\ soc_true_hist[t] = Scale

\* C3: for the selected load the controller's SOC_pred, dH_pred and Health_pred
\* equal the new SOC, the applied dHealth and the new Health of the same step.
C3_LookaheadMatchesPlant ==
  [][t' = t + 1 =>
       /\ SOC_pred(load_factor', SOC, Health, Sunlight(t), C_nominal) = SOC'
       /\ DHealth(FaultRate(t), SOC) = dHealth'
       /\ Health_pred(SOC, Health, FaultRate(t)) = Health']_vars

\* C4: after the predict and update of every step P is symmetric and positive
\* semi-definite, and the innovation covariance S of the next step is invertible.
C4_CovariancePSD ==
  /\ pc # "error"
  /\ P[1][2] = P[2][1]
  /\ P[1][1] >= 0 /\ P[2][2] >= 0 /\ Det(P) >= 0
  /\ Det(InnovCov(P_predict(P, Q_base), R)) # 0

\* the filter has predicted and updated
C4_Witness == t >= 2 /\ P # P0 /\ P[1][1] > 0 /\ P[2][2] > 0

\* C5: the recorded RUL is non-negative and is the number of remaining steps
\* until the estimated Health crosses 0.75 at the current rate: whenever the
\* estimated Health is at or above 0.75, RUL * rate = estimated Health - 0.75
\* (to within the one step lost by truncation).
C5_RulProjection ==
  t >= 1 =>
    LET rul  == rul_hist[t]
        rate == Max(Abs(DHealth(alpha_health_fault, X_est[1])), Scale \div 10^8)
    IN  /\ rul >= 0
        /\ X_est[2] >= Health_floor =>
             Abs(rul * rate - (X_est[2] - Health_floor)) < rate

\* decrease of true Health made in the step with loop index k >= 1
Decrease(k) == health_true_hist[k] - health_true_hist[k + 1]

\* the degradation rate used by the last step is the schedule of section 4.2
RateSchedule ==
  t >= 1 => alpha_health_fault = (IF t - 1 <= 300 THEN alpha_num ELSE 10 * alpha_num)

\* C6 as stated: the rate is the base rate for t <= 300 and ten times it for
\* t > 300, and the decrease of true Health made in step 301 is strictly larger
\* than the decrease made in step 300.
C6_SlopeSteepensAt301 ==
  /\ RateSchedule
  /\ Len(health_true_hist) >= 302 => Decrease(301) > Decrease(300)

\* C6 as amended: the rate is the base rate for t <= 300 and ten times it for
\* t > 300, and the decreases of true Health made in steps 300 and 301 are
\* equal, both zero, because the true SOC sits at SOC_target in both steps.
C6_RateStepNoSlopeChange ==
  /\ RateSchedule
  /\ Len(health_true_hist) >= 302 =>
       /\ Decrease(301) = Decrease(300)
       /\ Decrease(301) = 0
       /\ soc_true_hist[301] = SOC_target /\ soc_true_hist[302] = SOC_target

\* steps 300 and 301 have run, the second at the faulted rate
C6_Witness == Len(health_true_hist) >= 302 /\ t = 302 /\ alpha_health_fault = 10 * alpha_num

\* s is a prefix of u
IsPrefix(s, u) == Len(s) <= Len(u) /\ \A i \in 1..Len(s) : u[i] = s[i]

\* C7: after k steps each of the six histories holds exactly k entries, no
\* entry is ever changed or removed, and the run terminates after exactly 500
\* steps with all six histories of length 500.
C7_Histories ==
  /\ [](\A i \in 1..6 : Len(Histories[i]) = t)
  /\ [][\A i \in 1..6 : IsPrefix(Histories[i], Histories'[i])]_vars
  /\ <>(pc = "done")
  /\ [](pc = "done" => t = 500 /\ \A i \in 1..6 : Len(Histories[i]) = 500)

\* the run has ended with full histories
C7_Witness == pc = "done" /\ \A i \in 1..6 : Len(Histories[i]) = 500

ConfigInvalid ==
  \/ Q_base[1][1] < 0 \/ Q_base[2][2] < 0
  \/ R[1][1] < 0 \/ R[2][2] < 0
  \/ n_candidates = 0
  \/ C_nominal <= 0

\* C8: with an invalid configuration the loop executes no step and no history
\* entry is produced.
C8_InvalidConfigRejected ==
  ConfigInvalid =>
    /\ t = 0
    /\ SOC = SOC0 /\ Health = Health0
    /\ \A i \in 1..6 : Histories[i] = <<>>

\* C9: started below SOC_min, the true SOC eventually reaches SOC_min, and once
\* it has, it never falls below SOC_min again.
C9_SocRecovers ==
  /\ SOC0 < SOC_min
  /\ <>(SOC >= SOC_min)
  /\ [][SOC >= SOC_min => SOC' >= SOC_min]_vars

\* the run started below SOC_min, crossed it and has ended above it
C9_Witness ==
  /\ pc = "done"
  /\ soc_true_hist[1] < SOC_min
  /\ SOC >= SOC_min
  /\ \E k \in 2..500 : \A i \in k..500 : soc_true_hist[i] >= SOC_min

\* C10: true Health never increases, stays within [Health_min, 1.0], and the
\* Health-floor penalty of the controller is never triggered.
C10_HealthMonotoneBounded ==
  /\ [][Health' <= Health]_vars
  /\ [](Health_min <= Health /\ Health <= Scale)
  /\ [](pc = "loop" /\ t < steps => Health_pred(SOC, Health, FaultRate(t)) >= Health_min)

\* the run has ended with Health worn below 1.0 and above the floor
C10_Witness == pc = "done" /\ Health < Health0 /\ Health >= Health_min

====
